---- MODULE Spec2Model ----
(***************************************************************************)
(* State-machine model of indirect-pointer-example.c: the list node type,  *)
(* append_indirect, append_direct and the driver main().                   *)
(*                                                                         *)
(* The heap is a finite array of cells.  A pointer is a cell address or    *)
(* NULL.  A pointer to a pointer to a cell is a "slot": either the         *)
(* caller's head variable or the next field of a cell.                     *)
(***************************************************************************)
EXTENDS Integers, Sequences, FiniteSets, TLC

(***************************************************************************)
(* Bounds of the model.                                                    *)
(***************************************************************************)
MaxLen == 3        \* longest argv[1] explored
NumAddr == 3       \* number of heap cells malloc can hand out
MaxIter == 2       \* largest iteration count explored

(***************************************************************************)
(* Program constants.                                                      *)
(***************************************************************************)
NULL == 0               \* the null pointer
CharZero == 48          \* '0'
UsageReturn == 0 - 1    \* return -1 of main's two error paths
OkReturn == 0           \* return 0

Addr == 1..NumAddr
Ptr == Addr \cup {NULL}

\* characters argv[1] is drawn from: '1' and '3'
ValueChars == {49, 51}

(***************************************************************************)
(* Strings are sequences of character codes.                               *)
(***************************************************************************)
StringsUpTo(chars, n) == UNION {[1..k -> chars] : k \in 0..n}

strlen(s) == Len(s)

\* argv[1][index] - '0', with the C index (from 0)
CharValue(s, index) == s[index + 1] - CharZero

IsDigit(c) == c \in 48..57
IsSpace(c) == c \in {32} \cup (9..13)

RECURSIVE SkipSpace(_, _)
SkipSpace(s, i) ==
  IF i <= Len(s) /\ IsSpace(s[i]) THEN SkipSpace(s, i + 1) ELSE i

RECURSIVE DigitsValue(_, _, _)
DigitsValue(s, i, acc) ==
  IF i <= Len(s) /\ IsDigit(s[i])
    THEN DigitsValue(s, i + 1, acc * 10 + (s[i] - CharZero))
    ELSE acc

\* atoi: leading white space, an optional sign, then the longest run of
\* digits; 0 when there is none.
atoi(s) ==
  LET i == SkipSpace(s, 1)
      neg == i <= Len(s) /\ s[i] = 45
      signed == i <= Len(s) /\ s[i] \in {43, 45}
      j == IF signed THEN i + 1 ELSE i
      n == DigitsValue(s, j, 0)
  IN IF neg THEN 0 - n ELSE n

\* the status the parent process sees for main's return value
ExitStatus(r) == r % 256

(***************************************************************************)
(* Heap cells: list_entry_t plus the allocator's bookkeeping.              *)
(*   live  - the cell is allocated (malloc'ed and not yet free'd)          *)
(*   birth - iteration of main's outer loop in which it was last malloc'ed *)
(***************************************************************************)
list_entry_t == [value : Int, next : Ptr, live : BOOLEAN, birth : Nat]

HeadSlot == [kind |-> "head", node |-> NULL]
NoSlot == [kind |-> "none", node |-> NULL]
NextSlot(a) == [kind |-> "next", node |-> a]

\* *slot, where start is the caller's head variable
Deref(heap, start, slot) ==
  IF slot.kind = "head" THEN start ELSE heap[slot.node].next

\* *slot = p : the heap and the head variable afterwards
Store(heap, start, slot, p) ==
  IF slot.kind = "head"
    THEN [heap |-> heap, start |-> p]
    ELSE [heap |-> [heap EXCEPT ![slot.node].next = p], start |-> start]

\* what malloc may return: any cell not allocated, or NULL (out of memory)
MallocResults(heap) == {a \in Addr : ~heap[a].live} \cup {NULL}

Malloc(heap, a, it) == [heap EXCEPT ![a].live = TRUE, ![a].birth = it]

InitNode_wrongValue(heap, new, value) ==
  [heap EXCEPT ![new].value = 0, ![new].next = NULL]

InitNode_selfLoop(heap, new, value) ==
  [heap EXCEPT ![new].value = value, ![new].next = new]

\* new->value = value; new->next = NULL;
InitNode(heap, new, value) ==
  [heap EXCEPT ![new].value = value, ![new].next = NULL]

Free_noop(heap, p) == heap

\* free(p): free(NULL) does nothing
Free(heap, p) ==
  IF p = NULL THEN heap ELSE [heap EXCEPT ![p].live = FALSE]

\* the walks are cut off after this many steps; on a chain without a cycle
\* the loop ends earlier
WalkFuel == NumAddr + 1

(***************************************************************************)
(* append_indirect                                                         *)
(***************************************************************************)
IndirectDone_never(heap, start, indirect) == TRUE

\* the negation of the while condition: *indirect == NULL
IndirectDone(heap, start, indirect) == Deref(heap, start, indirect) = NULL

\* indirect = &((*indirect)->next)
IndirectAdvance(heap, start, indirect) == NextSlot(Deref(heap, start, indirect))

\* the slots `indirect` denotes, in order, until the loop ends
RECURSIVE WalkIndirect(_, _, _, _)
WalkIndirect(heap, start, trail, fuel) ==
  LET indirect == trail[Len(trail)]
  IN IF IndirectDone(heap, start, indirect) \/ fuel = 0
       THEN trail
       ELSE WalkIndirect(heap, start,
                         Append(trail, IndirectAdvance(heap, start, indirect)),
                         fuel - 1)

\* The call with malloc having returned new (a cell, not NULL), in the heap
\* where the cell is already marked allocated.  Result: the heap and the
\* caller's head afterwards, the slot written, and the cells whose fields
\* the call read or wrote.
append_indirect(value, start, heap, new) ==
  LET h1 == InitNode(heap, new, value)
      trail == WalkIndirect(h1, start, <<HeadSlot>>, WalkFuel)
      indirect == trail[Len(trail)]
      st == Store(h1, start, indirect, new)
  IN [heap |-> st.heap, start |-> st.start, wrote |-> indirect,
      touched |-> {new} \cup {trail[i].node : i \in 2..Len(trail)}]

(***************************************************************************)
(* append_direct                                                           *)
(***************************************************************************)
DirectDone_never(direct) == TRUE

\* the negation of the while condition: direct == NULL
DirectDone(direct) == direct = NULL

\* the values of <<prev, direct>>, in order, until the loop ends
RECURSIVE WalkDirect(_, _, _)
WalkDirect(heap, trail, fuel) ==
  LET cur == trail[Len(trail)]
  IN IF DirectDone(cur.direct) \/ fuel = 0
       THEN trail
       ELSE WalkDirect(heap,
                       Append(trail, [prev |-> cur.direct,
                                      direct |-> heap[cur.direct].next]),
                       fuel - 1)

DirectTarget_alwaysHead(prev) == HeadSlot

\* if (prev == NULL) *direct_start = new; else prev->next = new;
DirectTarget(prev) == IF prev = NULL THEN HeadSlot ELSE NextSlot(prev)

append_direct(value, start, heap, new) ==
  LET h1 == InitNode(heap, new, value)
      trail == WalkDirect(h1, <<[prev |-> NULL, direct |-> start]>>, WalkFuel)
      prev == trail[Len(trail)].prev
      target == DirectTarget(prev)
      st == Store(h1, start, target, new)
  IN [heap |-> st.heap, start |-> st.start, wrote |-> target,
      touched |-> {new} \cup {trail[i].prev : i \in 2..Len(trail)}]

\* the call through the function pointer `append` (declared with a void*
\* second parameter; the builds pass both pointer types the same way)
CallAppend(fn, value, start, heap, new) ==
  IF fn = "append_indirect"
    THEN append_indirect(value, start, heap, new)
    ELSE append_direct(value, start, heap, new)

(***************************************************************************)
(* Reading a list: the cells reached from p by next, and their values.     *)
(***************************************************************************)
RECURSIVE Chain(_, _, _)
Chain(heap, p, fuel) ==
  IF p = NULL \/ fuel = 0 THEN <<>>
  ELSE <<p>> \o Chain(heap, heap[p].next, fuel - 1)

Cells(heap, p) == Chain(heap, p, WalkFuel)
Values(heap, p) == [i \in 1..Len(Cells(heap, p)) |-> heap[Cells(heap, p)[i]].value]
Range(s) == {s[i] : i \in 1..Len(s)}
NoDup(s) == \A i, j \in 1..Len(s) : s[i] = s[j] => i = j
IsPrefix(s, t) == Len(s) <= Len(t) /\ \A i \in 1..Len(s) : s[i] = t[i]

\* the values main appends in one iteration
Input(s) == [i \in 1..Len(s) |-> CharValue(s, i - 1)]


(***************************************************************************)
(* The driver, main().                                                     *)
(*   args   - argv[1..argc-1]; argc = Len(args) + 1                        *)
(*   append - the function the pointer `append` holds                      *)
(*   pc     - where main is                                                *)
(*   out    - the lines printed since the current iteration of the outer   *)
(*            loop began (before the first one: since main began)          *)
(*   status - the exit status once main has returned                       *)
(* Bookkeeping that the program does not hold itself:                      *)
(*   fault  - the first invalid memory access made, "none" if none         *)
(*   allocd - the cells malloc returned in the current iteration, in order *)
(*   freed  - the arguments of the calls of free in the current iteration  *)
(*   ncalls - the number of calls of append so far                         *)
(*   wrote  - the slot the last completed call of append stored into       *)
(*   first  - the values of the list the first iteration built             *)
(***************************************************************************)
VARIABLES args, append, pc, num_itr, output, iteration, index,
          list, list_unordered, prev, heap, out, status,
          fault, allocd, freed, ncalls, wrote, first

vars == <<args, append, pc, num_itr, output, iteration, index,
          list, list_unordered, prev, heap, out, status,
          fault, allocd, freed, ncalls, wrote, first>>

argc == Len(args) + 1

TooFewArgs(n) == n < 3

BadIterations_allowZero(n) == n < 0

BadIterations(n) == n < 1

\* output = !(argc > 3)
OutputOn(n) == ~(n > 3)

Line(kind, it, node, value, next) ==
  [kind |-> kind, iteration |-> it, node |-> node, value |-> value, next |-> next]

UsageLines ==
  << Line("Usage:", 0, NULL, 0, NULL),
     Line("First argument", 0, NULL, 0, NULL),
     Line("Second argument", 0, NULL, 0, NULL),
     Line("Third argument", 0, NULL, 0, NULL) >>

IterationsLine == Line("Number of iterations must be", 0, NULL, 0, NULL)

Banner(fn) ==
  IF fn = "append_indirect" THEN <<Line("Using indirect append", 0, NULL, 0, NULL)>>
  ELSE IF fn = "append_direct" THEN <<Line("Using direct append", 0, NULL, 0, NULL)>>
  ELSE <<>>

\* the first invalid access is kept
Fault(old, bad, what) == IF old = "none" /\ bad THEN what ELSE old

\* the argv[2] explored: "", "x", "-1", "1x", and "0" .. the digit of MaxIter
CountStrings ==
  {<<>>, <<120>>, <<45, 49>>, <<49, 120>>} \cup {<<CharZero + k>> : k \in 0..MaxIter}

Init ==
  /\ \E s \in StringsUpTo(ValueChars, MaxLen) :
       \/ args = <<>>
       \/ args = <<s>>
       \/ \E n \in CountStrings : args \in {<<s, n>>, <<s, n, <<120>>>>}
  /\ append \in {"append_indirect", "append_direct"}
  /\ pc = "start"
  /\ num_itr = 0
  /\ output = FALSE
  /\ iteration = 0
  /\ index = 0
  /\ list = NULL
  /\ list_unordered = NULL
  /\ prev = NULL
  /\ heap = [a \in Addr |-> [value |-> 0, next |-> NULL, live |-> FALSE, birth |-> 0]]
  /\ out = <<>>
  /\ status = 0
  /\ fault = "none"
  /\ allocd = <<>>
  /\ freed = <<>>
  /\ ncalls = 0
  /\ wrote = NoSlot
  /\ first = <<>>

\* if (argc < 3) { usage; return -1; }
Usage ==
  /\ pc = "start"
  /\ TooFewArgs(argc)
  /\ out' = out \o UsageLines
  /\ status' = ExitStatus(UsageReturn)
  /\ pc' = "exited"
  /\ UNCHANGED <<args, append, num_itr, output, iteration, index, list,
                 list_unordered, prev, heap, fault, allocd, freed, ncalls, wrote, first>>

\* num_itr = atoi(argv[2]); if (num_itr < 1) { message; return -1; }
RejectIterations ==
  /\ pc = "start"
  /\ ~TooFewArgs(argc)
  /\ BadIterations(atoi(args[2]))
  /\ num_itr' = atoi(args[2])
  /\ out' = Append(out, IterationsLine)
  /\ status' = ExitStatus(UsageReturn)
  /\ pc' = "exited"
  /\ UNCHANGED <<args, append, output, iteration, index, list,
                 list_unordered, prev, heap, fault, allocd, freed, ncalls, wrote, first>>

\* num_itr accepted; output = !(argc > 3); the banner; iteration = 0
Begin ==
  /\ pc = "start"
  /\ ~TooFewArgs(argc)
  /\ ~BadIterations(atoi(args[2]))
  /\ num_itr' = atoi(args[2])
  /\ output' = OutputOn(argc)
  /\ out' = IF OutputOn(argc) THEN out \o Banner(append) ELSE out
  /\ iteration' = 0
  /\ pc' = "outer"
  /\ UNCHANGED <<args, append, index, list, list_unordered, prev, heap,
                 status, fault, allocd, freed, ncalls, wrote, first>>

IterationStartHead_stale(h) == h

\* list_unordered = NULL;
IterationStartHead(h) == NULL

\* iteration < num_itr: list_unordered = NULL; index = 0
StartIteration ==
  /\ pc = "outer"
  /\ iteration < num_itr
  /\ list_unordered' = IterationStartHead(list_unordered)
  /\ index' = 0
  /\ allocd' = <<>>
  /\ freed' = <<>>
  /\ out' = <<>>
  /\ pc' = "build"
  /\ UNCHANGED <<args, append, num_itr, output, iteration, list, prev, heap,
                 status, fault, ncalls, wrote, first>>

\* !(iteration < num_itr): return 0
Finish ==
  /\ pc = "outer"
  /\ ~(iteration < num_itr)
  /\ status' = ExitStatus(OkReturn)
  /\ pc' = "exited"
  /\ UNCHANGED <<args, append, num_itr, output, iteration, index, list,
                 list_unordered, prev, heap, out, fault, allocd, freed, ncalls, wrote, first>>

\* index < strlen(argv[1]): append(argv[1][index] - '0', &list_unordered);
\* index ++.  malloc returns a cell.
AppendCall ==
  /\ pc = "build"
  /\ index < strlen(args[1])
  /\ \E new \in MallocResults(heap) :
       /\ new # NULL
       /\ LET r == CallAppend(append, CharValue(args[1], index), list_unordered,
                              Malloc(heap, new, iteration), new)
          IN /\ heap' = r.heap
             /\ list_unordered' = r.start
             /\ fault' = Fault(fault, \E a \in r.touched : ~Malloc(heap, new, iteration)[a].live,
                               "use_after_free")
             /\ wrote' = r.wrote
       /\ allocd' = Append(allocd, new)
  /\ ncalls' = ncalls + 1
  /\ index' = index + 1
  /\ UNCHANGED <<args, append, pc, num_itr, output, iteration, list, prev,
                 out, status, freed, first>>

\* The same call with malloc returning NULL: new->value = value and
\* new->next = NULL store through the null pointer.  The behaviour is
\* undefined; both stores address page 0, which a hosted build does not map,
\* so whichever store comes first traps and the process is killed: the call
\* does not return and main does not exit.  What printf had buffered is
\* either written already or lost.
AppendNullDeref ==
  /\ pc = "build"
  /\ index < strlen(args[1])
  /\ NULL \in MallocResults(heap)
  /\ ncalls' = ncalls + 1
  /\ fault' = Fault(fault, TRUE, "null_deref")
  /\ out' \in {out, <<>>}
  /\ pc' = "crashed"
  /\ UNCHANGED <<args, append, num_itr, output, iteration, index, list,
                 list_unordered, prev, heap, status, allocd, freed, wrote, first>>

\* !(index < strlen(argv[1])): list = list_unordered;
BuildDone ==
  /\ pc = "build"
  /\ ~(index < strlen(args[1]))
  /\ list' = list_unordered
  /\ first' = IF iteration = 0 THEN Values(heap, list_unordered) ELSE first
  /\ pc' = "walk"
  /\ UNCHANGED <<args, append, num_itr, output, iteration, index,
                 list_unordered, prev, heap, out, status, fault, allocd,
                 freed, ncalls, wrote>>

\* list != NULL: if (output) printf(..., iteration, list, list->value, list->next);
\* (silent runs read no field here)
WalkPrint ==
  /\ pc = "walk"
  /\ list # NULL
  /\ out' = IF output
              THEN Append(out, Line("node", iteration, list, heap[list].value,
                                    heap[list].next))
              ELSE out
  /\ fault' = Fault(fault, output /\ ~heap[list].live, "use_after_free")
  /\ pc' = "advance"
  /\ UNCHANGED <<args, append, num_itr, output, iteration, index, list,
                 list_unordered, prev, heap, status, allocd, freed, ncalls, wrote, first>>

\* prev = list; list = list->next;
WalkAdvance ==
  /\ pc = "advance"
  /\ prev' = list
  /\ list' = heap[list].next
  /\ fault' = Fault(fault, ~heap[list].live, "use_after_free")
  /\ pc' = "free"
  /\ UNCHANGED <<args, append, num_itr, output, iteration, index,
                 list_unordered, heap, out, status, allocd, freed, ncalls, wrote, first>>

FreeTarget_current(p, l) == l

\* the argument of free(prev)
FreeTarget(p, l) == p

\* free(prev);
WalkFree ==
  /\ pc = "free"
  /\ LET p == FreeTarget(prev, list)
     IN /\ heap' = Free(heap, p)
        /\ freed' = Append(freed, p)
        /\ fault' = Fault(fault, p # NULL /\ ~heap[p].live, "double_free")
  /\ pc' = "walk"
  /\ UNCHANGED <<args, append, num_itr, output, iteration, index, list,
                 list_unordered, prev, out, status, allocd, ncalls, wrote, first>>

\* list == NULL: the while loop ends; iteration ++
WalkDone ==
  /\ pc = "walk"
  /\ list = NULL
  /\ iteration' = iteration + 1
  /\ pc' = "outer"
  /\ UNCHANGED <<args, append, num_itr, output, index, list, list_unordered,
                 prev, heap, out, status, fault, allocd, freed, ncalls, wrote, first>>

Next ==
  \/ Usage
  \/ RejectIterations
  \/ Begin
  \/ StartIteration
  \/ Finish
  \/ AppendCall
  \/ AppendNullDeref
  \/ BuildDone
  \/ WalkPrint
  \/ WalkAdvance
  \/ WalkFree
  \/ WalkDone

Spec == Init /\ [][Next]_vars

(***************************************************************************)
(* Properties.                                                             *)
(***************************************************************************)

\* the list as the build loop holds it: the cells from list_unordered
BuiltCells == Cells(heap, list_unordered)
BuiltValues == Values(heap, list_unordered)

\* a call of append that returned
AppendReturned == ncalls' = ncalls + 1 /\ pc' = "build"

\* the inner for loop has ended and the teardown has not started
JustBuilt == pc = "walk" /\ freed = <<>> /\ list = list_unordered

\* the teardown loop has ended
TornDown == pc = "walk" /\ list = NULL

\* C1: while a list is built, after index calls of append (either function)
\* from the empty head, the traversal from the head gives exactly the first
\* index values of the input, in order, in exactly index nodes; with no call
\* made the head is NULL; and the values main's own traversal has printed
\* when it ends are the input.
C1_RoundTrip ==
  /\ pc = "build" =>
       /\ BuiltValues = SubSeq(Input(args[1]), 1, index)
       /\ Len(BuiltCells) = index
       /\ (index = 0 <=> list_unordered = NULL)
  /\ (TornDown /\ output) => [i \in 1..Len(out) |-> out[i].value] = Input(args[1])

C1_Witness ==
  /\ pc = "build"
  /\ index = 3
  /\ args[1] = <<51, 49, 49>>
  /\ BuiltValues = <<3, 1, 1>>

\* C2: on every list the program builds (length 0 included), for every cell
\* malloc may return and every value, append_indirect and append_direct leave
\* the same head and the same heap (every value and next field).
C2_Equivalent ==
  pc = "build" =>
    \A new \in MallocResults(heap) \ {NULL} :
      \A v \in {0 - 1, 0, 1, 3} :
        LET h == Malloc(heap, new, iteration)
            i == append_indirect(v, list_unordered, h, new)
            d == append_direct(v, list_unordered, h, new)
        IN i.heap = d.heap /\ i.start = d.start

C2_Witness ==
  /\ pc = "build"
  /\ index = 2
  /\ Len(BuiltCells) = 2
  /\ MallocResults(heap) # {NULL}

\* C3: a call of append stores into the head slot exactly when the head was
\* NULL before the call; then the head becomes the new node, otherwise the
\* head keeps its value; so the head is the first node appended.
C3_HeadWrittenIffEmpty ==
  [][AppendReturned =>
       /\ (wrote'.kind = "head") <=> (list_unordered = NULL)
       /\ list_unordered = NULL => list_unordered' = allocd'[Len(allocd')]
       /\ list_unordered # NULL => list_unordered' = list_unordered
       /\ list_unordered' = allocd'[1]]_vars

C3_Witness ==
  /\ pc = "build"
  /\ index = 2
  /\ wrote.kind = "next"
  /\ list_unordered = allocd[1]
  /\ append = "append_direct"

\* C4: after a call of append on a list of n nodes the new node holds the
\* value and has no successor; the slot written is the head (n = 0) or the
\* next field of the old last node, and it holds the new node; every old
\* node keeps its value, every old node but the last keeps its next field,
\* and no field of any other cell changes.
C4_Frame ==
  [][AppendReturned =>
       LET new == allocd'[Len(allocd')]
           old == BuiltCells
           n == Len(old)
       IN /\ new \notin Range(old)
          /\ heap'[new].value = CharValue(args[1], index)
          /\ heap'[new].next = NULL
          /\ n = 0 => wrote' = HeadSlot /\ list_unordered' = new
          /\ n > 0 => /\ wrote' = NextSlot(old[n])
                      /\ heap[old[n]].next = NULL
                      /\ heap'[old[n]].next = new
                      /\ list_unordered' = list_unordered
          /\ \A i \in 1..n : heap'[old[i]].value = heap[old[i]].value
          /\ \A i \in 1..(n - 1) : heap'[old[i]].next = heap[old[i]].next
          /\ \A a \in Addr \ ({new} \cup Range(old)) :
               heap'[a].value = heap[a].value /\ heap'[a].next = heap[a].next
          /\ Cells(heap', list_unordered') = Append(old, new)]_vars

C4_Witness ==
  /\ pc = "build"
  /\ index = 3
  /\ wrote = NextSlot(allocd[2])
  /\ heap[allocd[2]].next = allocd[3]
  /\ heap[allocd[3]].next = NULL
  /\ heap[allocd[1]].next = allocd[2]

\* C5: the null pointer a failed malloc returns is never dereferenced (the
\* failure is reported to the caller instead).
C5_NullNeverDereferenced == fault # "null_deref"

\* fewer than two arguments, or a count that parses to less than 1
C6_Rejected == Len(args) < 2 \/ atoi(args[2]) < 1

\* C6: main exits with a non-zero status, a message printed and append never
\* called when fewer than two arguments are given or the count parses to
\* less than 1 ("", "x", "0", "-1" among them); otherwise, when it exits, it
\* has run the requested iterations and the status is zero.
C6_ExitStatus ==
  /\ (Len(args) >= 2 /\ args[2] \in {<<>>, <<120>>, <<48>>, <<45, 49>>}) => C6_Rejected
  /\ C6_Rejected => ncalls = 0 /\ allocd = <<>> /\ pc \in {"start", "exited"}
  /\ pc = "exited" =>
       IF C6_Rejected
         THEN status # 0 /\ out # <<>> /\ iteration = 0
         ELSE /\ status = 0
              /\ iteration = atoi(args[2])
              /\ ncalls = iteration * Len(args[1])

C6_Witness ==
  /\ pc = "exited"
  /\ Len(args) = 2
  /\ args[2] = <<48>>
  /\ status = 255

\* C7: when the teardown loop ends, free has been called exactly once per
\* node of the list, on each node once, in list order; no cell is allocated
\* any more and no cell was freed twice.
C7_Teardown ==
  /\ fault # "double_free"
  /\ NoDup(freed)
  /\ TornDown =>
       /\ Len(freed) = Len(args[1])
       /\ freed = allocd
       /\ \A a \in Addr : ~heap[a].live

C7_Witness ==
  /\ TornDown
  /\ Len(freed) = 3
  /\ append = "append_indirect"

\* C8: every iteration starts from a NULL head and builds a list with the
\* values of the first iteration's list, made only of cells that were
\* allocated in this iteration and are still allocated.
C8_Repetition ==
  /\ (pc = "build" /\ index = 0) => list_unordered = NULL
  /\ JustBuilt =>
       /\ BuiltValues = first
       /\ Len(BuiltCells) = Len(args[1])
       /\ \A i \in 1..Len(BuiltCells) :
            heap[BuiltCells[i]].live /\ heap[BuiltCells[i]].birth = iteration

C8_Witness ==
  /\ JustBuilt
  /\ iteration = 1
  /\ Len(first) = 3
  /\ Len(BuiltCells) = 3

\* the slots (the head, the next fields of allocated cells) that hold a
Referrers(a) ==
  {s \in {HeadSlot} \cup {NextSlot(b) : b \in {c \in Addr : heap[c].live}} :
     Deref(heap, list_unordered, s) = a}

\* C9: while a list is built and until its teardown starts, the list is a
\* chain without a cycle that ends in NULL, and no cell is referenced by
\* more than one slot (the head or the next field of an allocated cell).
C9_SimpleChain ==
  (pc = "build" \/ JustBuilt) =>
    /\ NoDup(BuiltCells)
    /\ Len(BuiltCells) <= NumAddr
    /\ BuiltCells # <<>> => heap[BuiltCells[Len(BuiltCells)]].next = NULL
    /\ \A a \in Addr : Cardinality(Referrers(a)) <= 1
    /\ \A a \in Addr : heap[a].live => a \in Range(BuiltCells)

C9_Witness ==
  /\ pc = "build"
  /\ index = 3
  /\ Cardinality(Range(BuiltCells)) = 3
  /\ append = "append_direct"
  /\ iteration = 1

\* the line the teardown prints for the k-th node built
NodeLine(k) ==
  Line("node", iteration, allocd[k], CharValue(args[1], k - 1),
       IF k < Len(allocd) THEN allocd[k + 1] ELSE NULL)

\* C10: the teardown visits the nodes in construction order, reads (and,
\* with output on, prints) a node's value and successor while the node is
\* still allocated, frees it afterwards, and neither the teardown nor any
\* call of append accesses a freed cell.
C10_ReadBeforeRelease ==
  /\ fault # "use_after_free"
  /\ pc \in {"walk", "advance", "free"} =>
       LET k == Len(freed) + 1
           seen == IF pc = "walk" THEN k - 1 ELSE k
       IN /\ IsPrefix(freed, allocd)
          /\ \A i \in 1..Len(allocd) : heap[allocd[i]].live <=> i >= k
          /\ output => out = [i \in 1..seen |-> NodeLine(i)]
          /\ ~output => out = <<>>
          /\ pc = "walk" => list = (IF k <= Len(allocd) THEN allocd[k] ELSE NULL)
          /\ pc = "advance" => list = allocd[k]
          /\ pc = "free" =>
               /\ prev = allocd[k]
               /\ list = heap[prev].next
               /\ list = (IF k < Len(allocd) THEN allocd[k + 1] ELSE NULL)

C10_Witness ==
  /\ pc = "free"
  /\ output
  /\ Len(out) = 2
  /\ prev = allocd[2]
  /\ heap[prev].live
  /\ out[2].value = heap[prev].value
  /\ out[2].next = list

====
